---- MODULE Spec2Model ----
(***************************************************************************)
(* A model of backend/server.py: the OTP-gated password rotation service.  *)
(* Every request handler is an asyncio coroutine; the code between two     *)
(* awaits runs without interruption on the event loop, and each awaited    *)
(* database operation takes effect atomically at the store.  An action of  *)
(* this model is one such uninterrupted segment.                            *)
(***************************************************************************)
EXTENDS Integers, Sequences, FiniteSets, TLC

\* ------------------------------------------------------------ constants
MAX_ATTEMPTS_PER_HOUR == 5
RATE_WINDOW == 3600
REPLAY_WINDOW == 30
MIN_PASSWORD_LEN == 8
TOTP_INTERVAL == 30
VALID_WINDOW == 1
OTP_MODULUS == 1000000
LIST_LIMIT == 1000
None == -1

\* ------------------------------------------------------------ bounds
StartTime == 90
MaxTicks == 1
MaxTicksRate == 2
MaxRotates == 3
MaxEnrolls == 2
MaxCallsRate == 7
MaxCallsOrder == 6
MaxCallsGate == 7
MaxCallsMixed == 3
MaxStepDistance == 17
MaxNowDelta == 31
NumSlots == 2

Slots == 1..NumSlots
Secrets == {1, 2}
\* how far the clock moves in one step: short moves on either side of the 30-second
\* windows, and moves that land on either side of the hour
ShortJumps == {29, 30}
LongJumps == {1, 3599}
RegisterNames == {"alice", "bob"}
Emails == {"a@x.com", "b@y.com"}
Passwords == {"short", "longenough1"}
\* the steps, relative to the current one, whose codes a client submits
SubmitOffsets == {-2, -1, 0}

\* ------------------------------------------------------------ helpers
\* rate_limit_storage is a defaultdict(list): a missing key reads as [].
Attempts(store, identifier) ==
    IF identifier \in DOMAIN store THEN store[identifier] ELSE <<>>

PruneReplayWindow(attempts, current_time) ==
    SelectSeq(attempts, LAMBDA attempt_time : current_time - attempt_time < REPLAY_WINDOW)

\* lines 73-75: keep the attempts younger than one hour
Prune(attempts, current_time) ==
    SelectSeq(attempts, LAMBDA attempt_time : current_time - attempt_time < RATE_WINDOW)

OverLimitOffByOne(attempts) == Len(attempts) > MAX_ATTEMPTS_PER_HOUR

\* line 77: the admission test on the pruned list
OverLimit(attempts) == Len(attempts) >= MAX_ATTEMPTS_PER_HOUR

\* check_rate_limit's return value
RateAllowed(store, identifier, current_time) ==
    ~OverLimit(Prune(Attempts(store, identifier), current_time))

RateStoreNoAppend(store, identifier, current_time) ==
    [k \in DOMAIN store \cup {identifier} |->
        IF k = identifier THEN Prune(Attempts(store, identifier), current_time)
        ELSE store[k]]

\* check_rate_limit's effect on rate_limit_storage
RateStore(store, identifier, current_time) ==
    LET pruned == Prune(Attempts(store, identifier), current_time)
        after == IF OverLimit(pruned) THEN pruned ELSE Append(pruned, current_time)
    IN [k \in DOMAIN store \cup {identifier} |->
            IF k = identifier THEN after ELSE store[k]]

\* pyotp: the counter of the 30-second step containing for_time
Timecode(for_time) == for_time \div TOTP_INTERVAL

\* pyotp generate_otp: the 6-digit value (HMAC-SHA1 of the counter under the
\* secret, dynamically truncated, modulo 10^6), tabulated for the two secrets and
\* the two ranges of counters that occur here.  Secret 1 is JBSWY3DPEHPK3PXP and
\* secret 2 is GEZDGNBVGY3TQOJQGEZDGNBVGY3TQOJQ; a code is the number that its
\* zero-padded 6-digit string denotes.
\* generate_otp for secret 1 (JBSWY3DPEHPK3PXP), counters 0..369
OtpLow1 ==
    <<
       282760, 996554, 602287, 143627, 960129, 768897, 883951, 449891, 964230, 924769,
       930313, 288090, 286296, 245864, 107004, 917526, 198981, 120102, 719634, 336413,
       461867, 607216, 429080, 689401, 187603, 451208, 479361, 172152, 545915, 67820,
       642872, 793825, 579200, 475209, 992976, 977407, 370970, 554369, 236168, 142892,
       626719, 806863, 90604, 671896, 259363, 195900, 888955, 195508, 887265, 65482,
       645588, 362011, 40531, 451529, 959963, 200054, 746871, 573746, 257246, 663767,
       68013, 42743, 257165, 952924, 37599, 402116, 902725, 465268, 697622, 562740,
       61333, 64884, 152800, 474496, 355583, 349587, 202073, 270161, 788869, 315085,
       125242, 76121, 892797, 799060, 392867, 334675, 887522, 30092, 887160, 519816,
       518635, 575594, 624699, 933255, 716320, 974413, 692364, 127168, 676771, 307781,
       594318, 485956, 885497, 141943, 235545, 103648, 384474, 491383, 368407, 671890,
       747915, 745580, 492888, 924602, 42059, 445285, 945644, 510868, 369687, 428818,
       990163, 935941, 361864, 68127, 868801, 196273, 363304, 218312, 16751, 310692,
       617370, 445147, 990267, 948793, 8210, 334006, 109997, 929269, 721451, 633798,
       182916, 331571, 560065, 729303, 157877, 365608, 312756, 788089, 102235, 523081,
       542634, 973682, 155774, 848486, 633608, 38620, 48376, 326387, 719215, 312639,
       412052, 8517, 600060, 67797, 685243, 652938, 913539, 334527, 207516, 355503,
       248136, 147630, 34022, 681215, 825974, 348948, 436459, 868930, 600338, 254028,
       367099, 538825, 612390, 19775, 181517, 818244, 435521, 751277, 194189, 129359,
       328181, 150653, 502056, 151258, 747417, 936204, 199536, 549763, 537377, 897334,
       501629, 362715, 702957, 786615, 294753, 735625, 782838, 899964, 42185, 141616,
       954830, 656529, 371095, 832106, 821411, 953958, 824996, 202102, 235245, 821177,
       274117, 285325, 576738, 599938, 779320, 657500, 961209, 833311, 934411, 342541,
       881305, 536345, 14727, 934645, 758927, 939315, 566339, 634740, 374078, 512424,
       275190, 442492, 164180, 540548, 94665, 567265, 496593, 207502, 401990, 835213,
       251329, 376925, 392587, 543167, 645529, 872537, 766, 141441, 4145, 964797,
       234927, 957078, 400785, 338904, 584193, 721932, 76231, 939275, 503338, 59384,
       408846, 555673, 402924, 542092, 57396, 827784, 107589, 330866, 458434, 746710,
       450749, 265885, 735627, 562448, 497883, 294725, 956997, 781347, 745142, 690701,
       479356, 955355, 344649, 123648, 462110, 799762, 840199, 731014, 191200, 999206,
       186839, 491608, 879307, 717557, 964044, 266510, 149489, 93141, 147677, 352391,
       9406, 68810, 99322, 929082, 549999, 909622, 273412, 361770, 992369, 433006,
       708148, 36526, 874216, 684932, 186734, 565402, 319392, 654442, 151270, 893984,
       324672, 766044, 402114, 837418, 488314, 459644, 977326, 818015, 851034, 797327,
       634161, 173564, 109461, 157257, 74122, 503314, 827185, 711267, 899496, 795199,
       910273, 666011, 206264, 874231, 98381, 979885, 4617, 234274, 396760, 240253,
       790619, 747166, 417816, 994027, 609956, 19754, 747643, 70826, 987821, 285571 >>

\* generate_otp for secret 1, counters 1720..1789
OtpHigh1 ==
    <<
       338984, 490479, 623461, 248688, 811350, 931298, 830600, 845663, 207140, 389245,
       236424, 247203, 356722, 157863, 445449, 682701, 288949, 706788, 757864, 108117,
       366134, 518849, 362987, 201645, 745768, 64162, 268535, 339695, 868495, 39113,
       589288, 985628, 785160, 397671, 695914, 879851, 838905, 76652, 336857, 725184,
       985628, 729841, 920305, 41840, 739046, 351502, 995856, 815338, 926617, 334142,
       202940, 340845, 728752, 602215, 619447, 388310, 510445, 674693, 969553, 471542,
       608142, 79828, 325834, 23358, 465758, 899530, 851238, 648717, 492993, 808159 >>

\* generate_otp for secret 2 (GEZDGNBVGY3TQOJQGEZDGNBVGY3TQOJQ), counters 0..369
OtpLow2 ==
    <<
       755224, 287082, 359152, 969429, 338314, 254676, 287922, 162583, 399871, 520489,
       403154, 481090, 868912, 736127, 229903, 436521, 186581, 447589, 903435, 578337,
       328281, 191635, 184416, 574561, 797908, 396619, 122382, 939082, 908316, 316591,
       26920, 523596, 370250, 841346, 749439, 37211, 3784, 520231, 521952, 619416,
       268376, 471723, 435478, 303194, 152, 287422, 318298, 98238, 39329, 710717,
       528155, 980838, 249088, 354406, 399156, 478026, 294892, 941415, 964363, 83773,
       864257, 719632, 5080, 925505, 317632, 88627, 24418, 954526, 36679, 864060,
       569881, 29459, 486963, 559613, 202372, 705686, 272974, 379493, 839877, 393669,
       863623, 198167, 935444, 108405, 305499, 563707, 447439, 332099, 87812, 32830,
       811649, 190372, 458549, 202468, 722946, 47817, 229689, 430056, 289357, 516516,
       295165, 329376, 629694, 378717, 694769, 804168, 290960, 207438, 466040, 12238,
       863891, 133688, 702014, 438906, 780546, 240957, 862652, 926140, 455436, 587786,
       929786, 849648, 577879, 33991, 390600, 670144, 986293, 307470, 425216, 334228,
       156835, 651889, 570405, 186928, 591313, 807552, 347330, 844442, 656754, 759308,
       679732, 636068, 117604, 334243, 273557, 415001, 415507, 719508, 888238, 449000,
       72172, 72953, 801020, 594526, 393059, 678706, 141555, 215923, 711384, 603868,
       953080, 656434, 951858, 133817, 47086, 323790, 747772, 738595, 370733, 141671,
       844986, 152983, 48765, 663651, 176699, 944323, 528241, 23376, 934556, 519205,
       897140, 790138, 406554, 536163, 650833, 473091, 879076, 443996, 712288, 915604,
       666078, 427801, 471610, 682261, 819211, 559282, 340234, 520705, 117750, 492354,
       466290, 462985, 107630, 113587, 714185, 869934, 639667, 27999, 892527, 750171,
       605052, 433226, 671591, 927329, 248452, 314781, 376933, 90782, 479050, 889114,
       190369, 407855, 986278, 365862, 122655, 632349, 814073, 488187, 709637, 151644,
       284054, 457795, 613566, 313836, 809419, 444007, 981540, 87223, 213116, 536762,
       441483, 74018, 86168, 515318, 322209, 912371, 543443, 826288, 819227, 383919,
       681925, 122054, 107495, 321107, 860767, 865784, 620188, 5112, 422047, 941438,
       338723, 914003, 81161, 596837, 587248, 724296, 786955, 704970, 707076, 847090,
       241888, 853340, 941623, 828449, 442049, 18765, 927285, 624121, 815299, 671772,
       31926, 269498, 456052, 143658, 270840, 286336, 463450, 762556, 850842, 528056,
       444622, 677591, 235365, 611226, 479732, 850476, 875335, 392867, 479299, 212050,
       981472, 178340, 982397, 78387, 485612, 73560, 59357, 559927, 114887, 393528,
       197149, 281060, 617026, 891004, 711624, 124013, 957765, 81030, 64911, 549004,
       309576, 700874, 177544, 730698, 129133, 421398, 645619, 915784, 507227, 307332,
       92561, 838645, 24053, 785198, 207067, 295217, 143951, 783353, 997849, 367331,
       273540, 679674, 988158, 302464, 861605, 723741, 761364, 340845, 940130, 845244,
       92726, 131524, 904789, 418704, 978735, 503893, 716250, 793665, 746773, 520781,
       774090, 187373, 367801, 35926, 121158, 739287, 866, 675358, 904379, 683765 >>

\* generate_otp for secret 2, counters 1720..1789
OtpHigh2 ==
    <<
       353008, 726871, 744121, 203137, 787673, 283127, 53377, 635589, 234633, 475816,
       63703, 38903, 504281, 907780, 788215, 608864, 907816, 11663, 783116, 266119,
       47119, 280585, 611977, 130050, 978127, 16576, 961110, 54166, 505195, 742510,
       114958, 924875, 871186, 795022, 786550, 403863, 609326, 562190, 172656, 346529,
       23391, 192421, 951526, 154970, 322879, 3385, 466916, 557569, 511281, 127603,
       786086, 785340, 38989, 475350, 377633, 738146, 235091, 508906, 196778, 306357,
       835657, 773178, 467032, 438397, 148043, 156047, 895399, 160007, 659361, 499655 >>

OtpTable(secret, high) ==
    IF secret = 1 THEN (IF high THEN OtpHigh1 ELSE OtpLow1)
    ELSE (IF high THEN OtpHigh2 ELSE OtpLow2)

Otp(secret, counter) ==
    IF counter < Len(OtpLow1)
    THEN OtpTable(secret, FALSE)[counter + 1] % OTP_MODULUS
    ELSE OtpTable(secret, TRUE)[counter - 1720 + 1] % OTP_MODULUS

verify_totp_wide(secret, token, now) ==
    \E i \in (0 - VALID_WINDOW - 1)..(VALID_WINDOW + 1) :
        token = Otp(secret, Timecode(now) + i)

verify_totp_exact(secret, token, now) == token = Otp(secret, Timecode(now))

\* verify_totp(secret, token) at wall-clock time now, valid_window = 1
verify_totp(secret, token, now) ==
    \E i \in (0 - VALID_WINDOW)..VALID_WINDOW : token = Otp(secret, Timecode(now) + i)

\* db.users.find_one({field: value}): the first matching document, or None (<<>>)
FindOne(coll, field, value) ==
    LET hits == {i \in DOMAIN coll : coll[i][field] = value}
    IN IF hits = {} THEN <<>>
       ELSE <<coll[CHOOSE i \in hits : \A j \in hits : i <= j]>>

\* lines 397-406: what startup_event leaves behind on a collection without indexes.
\* Both create_index calls are in one try whose except only logs: both indexes, or
\* only the first when the second call raised, or none when the first raised; the
\* service then serves requests all the same.
AllIndexes == {"username", "email"}

IndexOutcomes == {AllIndexes, {"username"}, {}}

\* a unique index of the collection refuses the document
ViolatesUnique(coll, doc, idx) ==
    \E i \in DOMAIN coll : \E f \in idx : coll[i][f] = doc[f]

\* User(...) with its defaults
User(id, username, email, totp_secret, created_at) ==
    [id |-> id, username |-> username, email |-> email, totp_secret |-> totp_secret,
     is_active |-> TRUE, created_at |-> created_at,
     last_otp_used |-> None, last_otp_time |-> None]

SetCodeOnly(doc, otp_code, current_time) ==
    [doc EXCEPT !.last_otp_used = otp_code]

\* update_one({"username": u}, {"$set": {last_otp_used, last_otp_time}}): the first
\* document with that username gets both fields in one write
SetReplayFields(doc, otp_code, current_time) ==
    [doc EXCEPT !.last_otp_used = otp_code, !.last_otp_time = current_time]

UpdateOne(coll, username, otp_code, current_time) ==
    LET hits == {i \in DOMAIN coll : coll[i].username = username}
    IN IF hits = {} THEN coll
       ELSE LET k == CHOOSE i \in hits : \A j \in hits : i <= j
            IN [coll EXCEPT ![k] = SetReplayFields(coll[k], otp_code, current_time)]

\* check_linux_user_exists (test mode): the list it searches contains username itself
check_linux_user_exists(username) ==
    username \in {"testuser", "demo", "test", username} \/ Len(username) > 3

ReplayCheckAnyCode(user, otp_code, current_time, aware) ==
    IF user.last_otp_used # None /\ user.last_otp_time # None
    THEN IF ~aware THEN "TypeError"
         ELSE IF current_time - user.last_otp_time < REPLAY_WINDOW THEN "replay"
         ELSE "pass"
    ELSE "pass"

\* lines 304-311: the replay test on the loaded document.  current_time is an
\* aware datetime (line 304); when the stored code equals the submitted one and a
\* time is stored, line 309 subtracts the loaded last_otp_time from it, which
\* raises TypeError when the driver decoded that time as a naive datetime, whatever
\* the two times are; otherwise the difference is compared with 30 seconds.
ReplayCheck(user, otp_code, current_time, aware) ==
    IF user.last_otp_used = otp_code /\ user.last_otp_time # None
    THEN IF ~aware THEN "TypeError"
         ELSE IF current_time - user.last_otp_time < REPLAY_WINDOW THEN "replay"
         ELSE "pass"
    ELSE "pass"

\* lines 308-311 within the checks: the uncaught TypeError is answered with status
\* 500, a replay with status 400
ReplayVerdict(outcome) ==
    IF outcome = "TypeError" THEN "InternalError"
    ELSE IF outcome = "replay" THEN "ReplayedCode"
    ELSE "ok"

RotateChecksNoLength(found, otp_code, new_password, now, aware) ==
    IF found = <<>> THEN "NotFound"
    ELSE IF ~found[1].is_active THEN "Disabled"
    ELSE IF ~verify_totp(found[1].totp_secret, otp_code, now) THEN "InvalidCode"
    ELSE IF ReplayCheck(found[1], otp_code, now, aware) # "pass"
         THEN ReplayVerdict(ReplayCheck(found[1], otp_code, now, aware))
    ELSE "ok"

\* lines 293-315: the checks made on the loaded document, in the order of the code
RotateChecks(found, otp_code, new_password, now, aware) ==
    IF found = <<>> THEN "NotFound"
    ELSE IF ~found[1].is_active THEN "Disabled"
    ELSE IF ~verify_totp(found[1].totp_secret, otp_code, now) THEN "InvalidCode"
    ELSE IF ReplayCheck(found[1], otp_code, now, aware) # "pass"
         THEN ReplayVerdict(ReplayCheck(found[1], otp_code, now, aware))
    ELSE IF Len(new_password) < MIN_PASSWORD_LEN THEN "WeakCredential"
    ELSE "ok"


InsertOneReplacing(coll, doc, idx) ==
    IF ViolatesUnique(coll, doc, idx)
    THEN [i \in DOMAIN coll |->
            IF \E f \in idx : coll[i][f] = doc[f] THEN doc ELSE coll[i]]
    ELSE Append(coll, doc)

\* insert_one under the unique indexes the collection has: the collection afterwards
\* (unchanged when the store raises DuplicateKeyError)
InsertOne(coll, doc, idx) ==
    IF ViolatesUnique(coll, doc, idx) THEN coll ELSE Append(coll, doc)

\* ------------------------------------------------------------ state
\* tz_aware is the option of that name of the MongoDB client built on line 30 from
\* the MONGO_URL of the environment (default False): whether the driver decodes a
\* stored datetime as an aware or as a naive datetime.  It is fixed for the life of
\* the process.  indexes are the fields on which the users collection has a unique
\* index once startup_event has run; no handler creates or drops one.  pending are
\* the writes that cancelled handlers had issued and that the driver still carries
\* out, each with the request as it stood when it was cancelled; landed are the ids
\* of the change_password requests whose update took effect that way.
VARIABLES clock, ticks, rate_limit_storage, users, calls, ncalls, admitLog, accepted,
          tz_aware, indexes, pending, landed

vars == <<clock, ticks, rate_limit_storage, users, calls, ncalls, admitLog, accepted,
          tz_aware, indexes, pending, landed>>

IdleCall ==
    [id |-> 0, op |-> "none", pc |-> "idle", username |-> "", email |-> "",
     otp_code |-> None, new_password |-> "", admitted |-> FALSE, user |-> <<>>,
     current_time |-> None, t_start |-> None,
     secret |-> None, rotator_calls |-> 0, rotator |-> "none", notifier |-> "none",
     wrote |-> FALSE,
     result |-> "none", response |-> <<>>]

\* the accounts the store holds when the service starts: carol, disabled by the
\* administrator (the service itself never clears is_active), and dave, enrolled
SeedUsers ==
    << [User(-1, "carol", "c@z.com", 1, 0) EXCEPT !.is_active = FALSE],
       User(0, "dave", "d@w.com", 1, 0) >>

Init ==
    /\ clock = StartTime
    /\ ticks = 0
    /\ rate_limit_storage = <<>>
    /\ users = SeedUsers
    /\ calls = [c \in Slots |-> IdleCall]
    /\ ncalls = 0
    /\ admitLog = <<>>
    /\ accepted = {}
    /\ tz_aware \in BOOLEAN
    /\ indexes \in IndexOutcomes
    /\ pending = {}
    /\ landed = {}

\* the same start with the driver's default, for the specifications that settle
\* nothing about the replay test
InitDefaultDriver == Init /\ tz_aware = FALSE

\* the same start after a startup that created both indexes, for the specifications
\* in which nothing is inserted
InitIndexed == Init /\ indexes = AllIndexes

\* both of these
InitDefault == InitDefaultDriver /\ indexes = AllIndexes

Free(c) == calls[c].pc \in {"idle", "done"}

\* requests are numbered in arrival order; a new one takes the lowest free slot
Lowest(c) == Free(c) /\ \A d \in Slots : Free(d) => c <= d

\* a finished request keeps only what it was asked, what it answered, how often it
\* called change_linux_password, what that returned, and whether its update_one
\* took effect
Finish(call, result) ==
    [IdleCall EXCEPT !.id = call.id, !.op = call.op, !.username = call.username,
                     !.email = call.email, !.otp_code = call.otp_code,
                     !.rotator_calls = call.rotator_calls, !.rotator = call.rotator,
                     !.wrote = call.wrote,
                     !.pc = "done", !.result = result]

\* the wall clock advances
Advance(jumps, limit) ==
    /\ ticks < limit
    /\ \E d \in jumps : clock' = clock + d
    /\ ticks' = ticks + 1
    /\ UNCHANGED <<pending, landed, indexes, tz_aware, rate_limit_storage, users, calls, ncalls, admitLog, accepted>>

Tick == Advance(ShortJumps, MaxTicks)

TickLong == Advance(LongJumps, MaxTicksRate)

\* Two records of what has happened, which no handler reads.  admitLog: every
\* admitted attempt of an identifier, never pruned (and every get_users call, which
\* has no identifier, under "get_users").  accepted: the code and time of
\* every change_password that returned success, with the number of requests that
\* had arrived by then.
Logged(log, identifier, allowed, now) ==
    LET old == IF identifier \in DOMAIN log THEN log[identifier] ELSE <<>>
    IN [k \in DOMAIN log \cup {identifier} |->
            IF k = identifier THEN (IF allowed THEN Append(old, now) ELSE old)
            ELSE log[k]]

\* a handler's first segment: check_rate_limit, then either 429 or the first await
Admit(c, limit, identifier, call, first_pc) ==
    LET allowed == RateAllowed(rate_limit_storage, identifier, clock)
        begun == [call EXCEPT !.id = ncalls + 1, !.t_start = clock,
                              !.admitted = allowed, !.pc = first_pc]
    IN /\ Lowest(c)
       /\ ncalls < limit
       /\ ncalls' = ncalls + 1
       /\ rate_limit_storage' = RateStore(rate_limit_storage, identifier, clock)
       /\ admitLog' = Logged(admitLog, identifier, allowed, clock)
       /\ calls' = [calls EXCEPT ![c] =
                        IF allowed THEN begun ELSE Finish(begun, "RateLimited")]
       /\ UNCHANGED <<pending, landed, indexes, tz_aware, clock, ticks, users, accepted>>

\* ------------------------------------------------------------ change_password
\* lines 284-292: the rate limit, then find_one is issued
BeginRotate(c, limit, username, otp_code, new_password) ==
    Admit(c, limit, "change_pass_" \o username,
          [IdleCall EXCEPT !.op = "change_password", !.username = username,
                           !.otp_code = otp_code, !.new_password = new_password],
          "find_user")

\* the code of the step two before the current one: no longer valid
StaleCode == Otp(1, Timecode(clock) - 2)

\* requests for an unknown and for a disabled account, and every combination of
\* code and password for an enrolled one
StartRotate(c) ==
    \/ \E username \in {"zed", "carol"} :
            BeginRotate(c, MaxRotates, username, StaleCode, "short")
    \/ \E k \in SubmitOffsets, new_password \in Passwords :
            BeginRotate(c, MaxRotates, "dave", Otp(1, Timecode(clock) + k), new_password)

\* the same requests, one at a time: none arrives while another is being handled
StartRotateAlone(c) ==
    /\ \A d \in Slots : Free(d)
    /\ \/ \E username \in {"zed", "carol"} :
            BeginRotate(c, MaxCallsOrder, username, StaleCode, "short")
       \/ \E k \in SubmitOffsets, new_password \in Passwords :
            BeginRotate(c, MaxCallsOrder, "dave", Otp(1, Timecode(clock) + k),
                        new_password)

\* more requests, all of them for an unknown or a disabled account
StartRotateNarrow(c) ==
    \E username \in {"zed", "carol"} :
        BeginRotate(c, MaxCallsRate, username, StaleCode, "short")

\* line 292: find_one takes effect at the store
RotateFind(c) ==
    /\ calls[c].op = "change_password" /\ calls[c].pc = "find_user"
    /\ calls' = [calls EXCEPT ![c].user = FindOne(users, "username", calls[c].username),
                              ![c].pc = "checks"]
    /\ UNCHANGED <<pending, landed, indexes, tz_aware, clock, ticks, rate_limit_storage, users, ncalls, admitLog, accepted>>

\* lines 293-318: the handler resumes, makes its checks and calls the rotator
RotateCheck(c) ==
    /\ calls[c].op = "change_password" /\ calls[c].pc = "checks"
    /\ LET verdict == RotateChecks(calls[c].user, calls[c].otp_code,
                                   calls[c].new_password, clock, tz_aware)
       IN calls' = [calls EXCEPT ![c] =
                        IF verdict = "ok"
                        THEN [calls[c] EXCEPT !.pc = "rotator", !.current_time = clock,
                                              !.rotator_calls = @ + 1]
                        ELSE Finish(calls[c], verdict)]
    /\ UNCHANGED <<pending, landed, indexes, tz_aware, clock, ticks, rate_limit_storage, users, ncalls, admitLog, accepted>>

AfterRotatorIgnoresResult(call, success) == [call EXCEPT !.pc = "update"]

AfterRotatorInverted(call, success) ==
    IF ~success THEN [call EXCEPT !.pc = "update"]
    ELSE Finish(call, "RotationFailed")

\* lines 318-323: on False the handler raises 500, on True it issues update_one
AfterRotator(call, success) ==
    IF success THEN [call EXCEPT !.pc = "update"]
    ELSE Finish(call, "RotationFailed")

\* lines 170-184 and 318-323: change_linux_password returns True, or False when it
\* caught an exception, and the handler goes on
RotatorReturns(c) ==
    /\ calls[c].op = "change_password" /\ calls[c].pc = "rotator"
    /\ \E success \in BOOLEAN :
        calls' = [calls EXCEPT ![c] =
                    AfterRotator([calls[c] EXCEPT !.rotator =
                                      IF success THEN "succeeded" ELSE "failed"],
                                 success)]
    /\ UNCHANGED <<pending, landed, indexes, tz_aware, clock, ticks, rate_limit_storage, users, ncalls, admitLog, accepted>>

\* lines 323-331: update_one takes effect at the store
RotateUpdate(c) ==
    /\ calls[c].op = "change_password" /\ calls[c].pc = "update"
    /\ users' = UpdateOne(users, calls[c].username, calls[c].otp_code,
                          calls[c].current_time)
    /\ calls' = [calls EXCEPT ![c].pc = "updated", ![c].wrote = TRUE]
    /\ UNCHANGED <<pending, landed, indexes, tz_aware, clock, ticks, rate_limit_storage, ncalls, admitLog, accepted>>

\* lines 333-337: the handler resumes and returns success
RotateReturn(c) ==
    /\ calls[c].op = "change_password" /\ calls[c].pc = "updated"
    /\ calls' = [calls EXCEPT ![c] = Finish(calls[c], "success")]
    /\ accepted' = accepted \cup {[username |-> calls[c].username,
                                    code |-> calls[c].otp_code,
                                    time |-> calls[c].current_time,
                                    ret |-> ncalls]}
    /\ UNCHANGED <<pending, landed, indexes, tz_aware, clock, ticks, rate_limit_storage, users, ncalls, admitLog>>

\* ------------------------------------------------------------ register_user
\* lines 188-196: the rate limit, then find_one by username is issued
BeginRegister(c, limit, username, email) ==
    Admit(c, limit, "register_" \o email,
          [IdleCall EXCEPT !.op = "register", !.username = username, !.email = email],
          "find_username")

StartRegister(c) ==
    \E username \in RegisterNames, email \in Emails :
        BeginRegister(c, MaxEnrolls, username, email)

RegisterFindUsernameByEmail(c) ==
    /\ calls[c].op = "register" /\ calls[c].pc = "find_username"
    /\ calls' = [calls EXCEPT ![c].user = FindOne(users, "email", calls[c].email),
                              ![c].pc = "check_username"]
    /\ UNCHANGED <<pending, landed, indexes, tz_aware, clock, ticks, rate_limit_storage, users, ncalls, admitLog, accepted>>

\* line 196: find_one by username takes effect at the store; the handler is still
\* suspended at its await, the answer waits for it
RegisterFindUsername(c) ==
    /\ calls[c].op = "register" /\ calls[c].pc = "find_username"
    /\ calls' = [calls EXCEPT ![c].user = FindOne(users, "username", calls[c].username),
                              ![c].pc = "check_username"]
    /\ UNCHANGED <<pending, landed, indexes, tz_aware, clock, ticks, rate_limit_storage, users, ncalls, admitLog, accepted>>

\* lines 196-200: the handler resumes with existing_user; 400, or find_one by email
\* is issued
RegisterCheckUsername(c) ==
    /\ calls[c].op = "register" /\ calls[c].pc = "check_username"
    /\ calls' = [calls EXCEPT ![c] =
                    IF calls[c].user # <<>>
                    THEN Finish(calls[c], "DuplicateUsername")
                    ELSE [calls[c] EXCEPT !.pc = "find_email"]]
    /\ UNCHANGED <<pending, landed, indexes, tz_aware, clock, ticks, rate_limit_storage, users, ncalls, admitLog, accepted>>

\* line 200: find_one by email takes effect at the store
RegisterFindEmail(c) ==
    /\ calls[c].op = "register" /\ calls[c].pc = "find_email"
    /\ calls' = [calls EXCEPT ![c].user = FindOne(users, "email", calls[c].email),
                              ![c].pc = "check_email"]
    /\ UNCHANGED <<pending, landed, indexes, tz_aware, clock, ticks, rate_limit_storage, users, ncalls, admitLog, accepted>>

\* lines 200-222: the handler resumes with existing_email; 400, or the identity
\* check, the new secret, the User document (created_at is the time of this step),
\* and insert_one is issued
RegisterCheckEmail(c) ==
    /\ calls[c].op = "register" /\ calls[c].pc = "check_email"
    /\ \E totp_secret \in Secrets :
        calls' = [calls EXCEPT ![c] =
                    IF calls[c].user # <<>>
                    THEN Finish(calls[c], "DuplicateEmail")
                    ELSE IF ~check_linux_user_exists(calls[c].username)
                    THEN Finish(calls[c], "UnknownIdentity")
                    ELSE [calls[c] EXCEPT !.pc = "insert", !.secret = totp_secret,
                                          !.current_time = clock]]
    /\ UNCHANGED <<pending, landed, indexes, tz_aware, clock, ticks, rate_limit_storage, users, ncalls, admitLog, accepted>>

NewUser(call) ==
    User(call.id, call.username, call.email, call.secret, call.current_time)

\* line 222: insert_one takes effect at the store, or the store refuses it with
\* DuplicateKeyError; the handler is still suspended
RegisterInsert(c) ==
    /\ calls[c].op = "register" /\ calls[c].pc = "insert"
    /\ users' = InsertOne(users, NewUser(calls[c]), indexes)
    /\ calls' = [calls EXCEPT ![c].pc =
                    IF users' = users THEN "insert_raised" ELSE "inserted"]
    /\ UNCHANGED <<pending, landed, indexes, tz_aware, clock, ticks, rate_limit_storage, ncalls, admitLog, accepted>>

\* lines 222-281: the handler resumes.  DuplicateKeyError, which no handler catches,
\* ends it with a 500 response; else it adds send_email_async to the background
\* tasks and returns success; the tasks run after the response has been sent, in
\* the request's own task
RegisterReturn(c) ==
    /\ calls[c].op = "register" /\ calls[c].pc \in {"inserted", "insert_raised"}
    /\ calls' = [calls EXCEPT ![c] =
                    IF calls[c].pc = "insert_raised"
                    THEN Finish(calls[c], "InternalError")
                    ELSE [Finish(calls[c], "success") EXCEPT !.pc = "notify",
                                                             !.secret = calls[c].secret]]
    /\ UNCHANGED <<pending, landed, indexes, tz_aware, clock, ticks, rate_limit_storage, users, ncalls, admitLog, accepted>>

AfterNotifierFailsEnroll(call, sent) ==
    [Finish(call, IF sent THEN call.result ELSE "InternalError")
        EXCEPT !.notifier = IF sent THEN "sent" ELSE "failed"]

\* the background task has run: its return value goes nowhere
AfterNotifier(call, sent) ==
    [Finish(call, call.result) EXCEPT !.notifier = IF sent THEN "sent" ELSE "failed"]

\* lines 115-154: send_email_async returns True, or False when the credentials are
\* missing or anything raised
SendEmail(c) ==
    /\ calls[c].op = "register" /\ calls[c].pc = "notify"
    /\ \E sent \in BOOLEAN :
        calls' = [calls EXCEPT ![c] = AfterNotifier(calls[c], sent)]
    /\ UNCHANGED <<pending, landed, indexes, tz_aware, clock, ticks, rate_limit_storage, users, ncalls, admitLog, accepted>>

\* ------------------------------------------------------------ get_qr_code
\* generate_qr_code(username, secret): the image of the provisioning URI, which is
\* determined by the account name and the secret
generate_qr_code(username, secret) == <<username, secret>>

QrResponseRegenerated(username, doc) ==
    LET fresh == (doc.totp_secret % 2) + 1
    IN [qr_code_base64 |-> generate_qr_code(username, fresh), secret |-> fresh]

\* lines 352-358: QRCodeResponse built from the stored secret
QrResponse(username, doc) ==
    [qr_code_base64 |-> generate_qr_code(username, doc.totp_secret),
     secret |-> doc.totp_secret]

\* lines 340-348: the rate limit, then find_one is issued
BeginDescribe(c, limit, username) ==
    Admit(c, limit, "qr_code_" \o username,
          [IdleCall EXCEPT !.op = "get_qr_code", !.username = username],
          "find_qr")

\* line 348: find_one takes effect at the store; the handler is still suspended
DescribeFind(c) ==
    /\ calls[c].op = "get_qr_code" /\ calls[c].pc = "find_qr"
    /\ calls' = [calls EXCEPT ![c].user = FindOne(users, "username", calls[c].username),
                              ![c].pc = "qr_found"]
    /\ UNCHANGED <<pending, landed, indexes, tz_aware, clock, ticks, rate_limit_storage, users, ncalls, admitLog, accepted>>

\* lines 348-358: the handler resumes with the document it was answered; 404, or the
\* QR code of that document's secret
DescribeReturn(c) ==
    /\ calls[c].op = "get_qr_code" /\ calls[c].pc = "qr_found"
    /\ LET found == calls[c].user
       IN calls' = [calls EXCEPT ![c] =
                IF found = <<>> THEN Finish(calls[c], "NotFound")
                ELSE [Finish(calls[c], "success") EXCEPT !.response =
                        QrResponse(calls[c].username, found[1])]]
    /\ UNCHANGED <<pending, landed, indexes, tz_aware, clock, ticks, rate_limit_storage, users, ncalls, admitLog, accepted>>

\* ------------------------------------------------------------ get_users
\* lines 374-376: the document without the two keys the handler pops
Sanitized(doc) ==
    [f \in DOMAIN doc \ {"totp_secret", "last_otp_used"} |-> doc[f]]

\* line 372: find().to_list(1000)
ToList(coll, length) ==
    SubSeq(coll, 1, IF Len(coll) < length THEN Len(coll) ELSE length)

\* lines 370-372: the handler starts and issues find(); it calls no rate limiter.
\* admitLog records the call, as it does every call that was not refused.
BeginList(c, limit) ==
    /\ Lowest(c)
    /\ ncalls < limit
    /\ ncalls' = ncalls + 1
    /\ calls' = [calls EXCEPT ![c] =
                    [IdleCall EXCEPT !.op = "get_users", !.id = ncalls + 1,
                                     !.t_start = clock, !.pc = "find_all"]]
    /\ admitLog' = Logged(admitLog, "get_users", TRUE, clock)
    /\ UNCHANGED <<pending, landed, indexes, tz_aware, clock, ticks, rate_limit_storage, users, accepted>>

\* line 372: find().to_list(1000) takes effect at the store; the handler is still
\* suspended
ListFind(c) ==
    /\ calls[c].op = "get_users" /\ calls[c].pc = "find_all"
    /\ calls' = [calls EXCEPT ![c].user = ToList(users, LIST_LIMIT),
                              ![c].pc = "list_found"]
    /\ UNCHANGED <<pending, landed, indexes, tz_aware, clock, ticks, rate_limit_storage, users, ncalls, admitLog, accepted>>

\* lines 372-377: the handler resumes with the documents it was answered, pops the
\* keys and returns the list
ListReturn(c) ==
    /\ calls[c].op = "get_users" /\ calls[c].pc = "list_found"
    /\ LET found == calls[c].user
       IN calls' = [calls EXCEPT ![c] =
                [Finish(calls[c], "success") EXCEPT !.response =
                    [i \in DOMAIN found |-> Sanitized(found[i])]]]
    /\ UNCHANGED <<pending, landed, indexes, tz_aware, clock, ticks, rate_limit_storage, users, ncalls, admitLog, accepted>>

\* ------------------------------------------------------------ verify_totp alone
\* the first second of step 1750: under secret 1 the steps 1751 and 1760 have the
\* same code, 985628, so that the times drawn below see a token of a step outside
\* the window that equals a code inside it
VerifyStart == 1750 * TOTP_INTERVAL

\* the function applied to a secret, a token that is the code of some step near the
\* current one, and a time
InitVerify ==
    /\ clock \in {VerifyStart + d : d \in 0..MaxNowDelta}
    /\ ticks = 0
    /\ rate_limit_storage = <<>>
    /\ users = SeedUsers
    /\ \E secret \in Secrets, k \in (0 - MaxStepDistance)..MaxStepDistance :
            calls = [c \in Slots |->
                        IF c = 1
                        THEN [IdleCall EXCEPT !.op = "verify_totp", !.pc = "verify",
                                !.secret = secret,
                                !.otp_code = Otp(secret, Timecode(clock) + k)]
                        ELSE IdleCall]
    /\ ncalls = 0
    /\ admitLog = <<>>
    /\ accepted = {}
    /\ tz_aware = FALSE
    /\ indexes = AllIndexes
    /\ pending = {}
    /\ landed = {}

\* lines 109-112
VerifyApply(c) ==
    /\ calls[c].op = "verify_totp" /\ calls[c].pc = "verify"
    /\ calls' = [calls EXCEPT ![c] =
                    Finish(calls[c],
                           IF verify_totp(calls[c].secret, calls[c].otp_code, clock)
                           THEN "accepted" ELSE "rejected")]
    /\ UNCHANGED <<pending, landed, indexes, tz_aware, clock, ticks, rate_limit_storage, users, ncalls, admitLog, accepted>>

NextVerify == \E c \in Slots : VerifyApply(c)

SpecVerify == InitVerify /\ [][NextVerify]_vars

\* ------------------------------------------------------------ cancellation
\* a handler suspended at an await is cancelled (the request is abandoned): it runs
\* no further; a response that has been sent stands.  The cancellation ends the
\* handler only.  An insert_one (line 222) or update_one (line 323) it had issued and
\* that has not taken effect yet was handed to the thread pool of the driver (the
\* Motor client of line 29) when it was called: if a worker thread has taken it up,
\* it still takes effect later; if it was still queued behind other operations, the
\* cancellation withdraws it and it never does.
Abandon(c) ==
    /\ ~Free(c)
    /\ calls' = [calls EXCEPT ![c] =
                    Finish(calls[c], IF calls[c].pc = "notify" THEN calls[c].result
                                     ELSE "cancelled")]
    /\ \/ pending' = pending
       \/ /\ calls[c].pc \in {"insert", "update"}
          /\ pending' = pending \cup {calls[c]}
    /\ UNCHANGED <<landed, indexes, tz_aware, clock, ticks, rate_limit_storage, users, ncalls, admitLog, accepted>>

\* lines 323-331: the update_one of a cancelled handler takes effect at the store
LateUpdate(op) ==
    /\ op \in pending /\ op.pc = "update"
    /\ users' = UpdateOne(users, op.username, op.otp_code, op.current_time)
    /\ pending' = pending \ {op}
    /\ landed' = landed \cup {op.id}
    /\ UNCHANGED <<indexes, tz_aware, clock, ticks, rate_limit_storage, calls, ncalls, admitLog, accepted>>

\* line 222: the insert_one of a cancelled handler takes effect at the store, or the
\* store refuses it
LateInsert(op) ==
    /\ op \in pending /\ op.pc = "insert"
    /\ users' = InsertOne(users, NewUser(op), indexes)
    /\ pending' = pending \ {op}
    /\ UNCHANGED <<landed, indexes, tz_aware, clock, ticks, rate_limit_storage, calls, ncalls, admitLog, accepted>>

\* ------------------------------------------------------------ specifications
\* password rotation on the seeded accounts
NextRotate ==
    \/ Tick
    \/ \E c \in Slots : StartRotate(c)
    \/ \E c \in Slots : RotateFind(c)
    \/ \E c \in Slots : RotateCheck(c)
    \/ \E c \in Slots : RotatorReturns(c)
    \/ \E c \in Slots : RotateUpdate(c)
    \/ \E c \in Slots : RotateReturn(c)
    \/ \E c \in Slots : Abandon(c)
    \/ \E op \in pending : LateUpdate(op)

SpecRotate == InitIndexed /\ [][NextRotate]_vars

\* enrollment
NextEnroll ==
    \/ Tick
    \/ \E c \in Slots : StartRegister(c)
    \/ \E c \in Slots : RegisterFindUsername(c)
    \/ \E c \in Slots : RegisterCheckUsername(c)
    \/ \E c \in Slots : RegisterFindEmail(c)
    \/ \E c \in Slots : RegisterCheckEmail(c)
    \/ \E c \in Slots : RegisterInsert(c)
    \/ \E c \in Slots : RegisterReturn(c)
    \/ \E c \in Slots : SendEmail(c)
    \/ \E c \in Slots : Abandon(c)
    \/ \E op \in pending : LateInsert(op)

SpecEnroll == InitDefaultDriver /\ [][NextEnroll]_vars

\* enrollment, one request after the other
StartRegisterAlone(c) ==
    /\ \A d \in Slots : Free(d)
    /\ \E username \in RegisterNames, email \in Emails :
            BeginRegister(c, MaxCallsOrder, username, email)

NextEnrollOrder ==
    \/ Tick
    \/ \E c \in Slots : StartRegisterAlone(c)
    \/ \E c \in Slots : RegisterFindUsername(c)
    \/ \E c \in Slots : RegisterCheckUsername(c)
    \/ \E c \in Slots : RegisterFindEmail(c)
    \/ \E c \in Slots : RegisterCheckEmail(c)
    \/ \E c \in Slots : RegisterInsert(c)
    \/ \E c \in Slots : RegisterReturn(c)
    \/ \E c \in Slots : SendEmail(c)

SpecEnrollOrder == InitDefaultDriver /\ [][NextEnrollOrder]_vars

\* password rotation, one request after the other
NextOrder ==
    \/ Tick
    \/ \E c \in Slots : StartRotateAlone(c)
    \/ \E c \in Slots : RotateFind(c)
    \/ \E c \in Slots : RotateCheck(c)
    \/ \E c \in Slots : RotatorReturns(c)
    \/ \E c \in Slots : RotateUpdate(c)
    \/ \E c \in Slots : RotateReturn(c)

SpecOrder == InitIndexed /\ [][NextOrder]_vars

\* many requests over more than an hour
NextRate ==
    \/ TickLong
    \/ \E c \in Slots : StartRotateNarrow(c)
    \/ \E c \in Slots : RotateFind(c)
    \/ \E c \in Slots : RotateCheck(c)

SpecRate == InitDefault /\ [][NextRate]_vars

\* the two read-only handlers, many requests over more than an hour
StartDescribeGate(c) == BeginDescribe(c, MaxCallsGate, "dave")

StartListGate(c) == BeginList(c, MaxCallsGate)

NextGate ==
    \/ TickLong
    \/ \E c \in Slots : StartDescribeGate(c)
    \/ \E c \in Slots : DescribeFind(c)
    \/ \E c \in Slots : DescribeReturn(c)
    \/ \E c \in Slots : StartListGate(c)
    \/ \E c \in Slots : ListFind(c)
    \/ \E c \in Slots : ListReturn(c)

SpecGate == InitDefault /\ [][NextGate]_vars

\* all four handlers together
StartRegisterMixed(c) ==
    \E username \in RegisterNames, email \in Emails :
        BeginRegister(c, MaxCallsMixed, username, email)

StartRotateMixed(c) ==
    BeginRotate(c, MaxCallsMixed, "dave", Otp(1, Timecode(clock)), "longenough1")

StartDescribeMixed(c) ==
    \E username \in {"dave", "alice"} :
        BeginDescribe(c, MaxCallsMixed, username)

StartListMixed(c) == BeginList(c, MaxCallsMixed)

NextMixed ==
    \/ Tick
    \/ \E c \in Slots : StartRegisterMixed(c)
    \/ \E c \in Slots : RegisterFindUsername(c)
    \/ \E c \in Slots : RegisterCheckUsername(c)
    \/ \E c \in Slots : RegisterFindEmail(c)
    \/ \E c \in Slots : RegisterCheckEmail(c)
    \/ \E c \in Slots : RegisterInsert(c)
    \/ \E c \in Slots : RegisterReturn(c)
    \/ \E c \in Slots : SendEmail(c)
    \/ \E c \in Slots : StartRotateMixed(c)
    \/ \E c \in Slots : RotateFind(c)
    \/ \E c \in Slots : RotateCheck(c)
    \/ \E c \in Slots : RotatorReturns(c)
    \/ \E c \in Slots : RotateUpdate(c)
    \/ \E c \in Slots : RotateReturn(c)
    \/ \E c \in Slots : StartDescribeMixed(c)
    \/ \E c \in Slots : DescribeFind(c)
    \/ \E c \in Slots : DescribeReturn(c)
    \/ \E c \in Slots : StartListMixed(c)
    \/ \E c \in Slots : ListFind(c)
    \/ \E c \in Slots : ListReturn(c)

SpecMixed == InitDefault /\ [][NextMixed]_vars

\* ------------------------------------------------------------ properties
\* the rate-limit key of a request
RateKey(call) ==
    IF call.op = "register" THEN "register_" \o call.email
    ELSE IF call.op = "get_qr_code" THEN "qr_code_" \o call.username
    ELSE "change_pass_" \o call.username

\* slot c takes a new request in this step
Arrives(c) == calls'[c].id # calls[c].id

\* the admitted attempts of an identifier that are younger than the window at now
Recent(log, identifier, now) ==
    SelectSeq(Attempts(log, identifier), LAMBDA t : now - t < RATE_WINDOW)

\* C1: a call is admitted exactly when fewer than 5 earlier admitted calls of its
\* identifier lie in the trailing 3600 seconds, it is answered RateLimited exactly
\* when it is not admitted, and afterwards the store holds exactly the admitted calls
\* of that window: a denied call leaves no entry.
C1_AdmitIffFewerThanFive ==
    [][\A c \in Slots : Arrives(c) =>
          LET key == RateKey(calls'[c])
              fewer == Len(Recent(admitLog, key, clock)) < MAX_ATTEMPTS_PER_HOUR
          IN /\ (calls'[c].result # "RateLimited") <=> fewer
             /\ Len(Attempts(admitLog', key)) =
                    Len(Attempts(admitLog, key)) + (IF fewer THEN 1 ELSE 0)
             /\ rate_limit_storage'[key] = Recent(admitLog', key, clock)]_vars

\* C1 witness: an identifier had five calls admitted, one denied, and a sixth
\* admitted after the oldest aged out.
C1_Witness ==
    \E c \in Slots :
        /\ calls[c].result = "RateLimited"
        /\ Len(Attempts(admitLog, RateKey(calls[c]))) > MAX_ATTEMPTS_PER_HOUR

\* C2: with handlers interleaving, no identifier ever has more than 5 admitted
\* calls inside one 3600-second window.
C2_NeverMoreThanFiveInWindow ==
    \A key \in DOMAIN admitLog :
        \A i \in DOMAIN admitLog[key] :
            Cardinality({j \in DOMAIN admitLog[key] :
                            /\ j >= i
                            /\ admitLog[key][j] - admitLog[key][i] < RATE_WINDOW})
                <= MAX_ATTEMPTS_PER_HOUR

\* C2 witness: two handlers are in flight for one identifier whose window is full,
\* one of them the fifth admitted.
C2_Witness ==
    \E c, d \in Slots :
        /\ c # d
        /\ calls[c].pc \in {"find_user", "checks"}
        /\ calls[d].pc \in {"find_user", "checks"}
        /\ calls[c].username = calls[d].username
        /\ Len(rate_limit_storage[RateKey(calls[c])]) = MAX_ATTEMPTS_PER_HOUR

\* the stored account of a username, as a sequence of at most one document
Account(username) == FindOne(users, "username", username)

\* the codes of the current step and of the two steps next to it
WindowCodes(secret, now) ==
    {Otp(secret, Timecode(now) - 1), Otp(secret, Timecode(now)),
     Otp(secret, Timecode(now) + 1)}

\* change_password in slot c resumes after find_one and makes its checks in this step
Checks(c) ==
    /\ calls[c].op = "change_password"
    /\ calls[c].pc = "checks"
    /\ calls'[c].pc # "checks"
    /\ calls'[c].result # "cancelled"

\* C3 as stated: a code accepted by a successful change_password at time t, submitted
\* again for that account (with an acceptable new password) by a later request whose
\* check comes less than 30 seconds after t, while the code is still inside the TOTP
\* window, is answered ReplayedCode.
C3_AcceptedCodeReplayed ==
    [][\A c \in Slots : Checks(c) =>
          \A a \in accepted :
              ( /\ a.username = calls[c].username
                /\ a.code = calls[c].otp_code
                /\ calls[c].id > a.ret
                /\ clock - a.time < REPLAY_WINDOW
                /\ a.code \in WindowCodes(calls[c].user[1].totp_secret, clock)
                /\ Len(calls[c].new_password) >= MIN_PASSWORD_LEN )
              => calls'[c].result = "ReplayedCode"]_vars

\* What remains of C3 when the driver decodes aware datetimes: the same, with any
\* new password, for a request that loads the account while that code and time are
\* still the recorded last accepted pair.  With the default driver the same request
\* is answered InternalError.
C3_AwareLastAcceptedCodeReplayed ==
    [][\A c \in Slots : Checks(c) =>
          \A a \in accepted :
              ( /\ a.username = calls[c].username
                /\ a.code = calls[c].otp_code
                /\ calls[c].id > a.ret
                /\ clock - a.time < REPLAY_WINDOW
                /\ a.code \in WindowCodes(calls[c].user[1].totp_secret, clock)
                /\ calls[c].user[1].last_otp_used = a.code
                /\ calls[c].user[1].last_otp_time = a.time )
              => calls'[c].result =
                    (IF tz_aware THEN "ReplayedCode" ELSE "InternalError")]_vars

\* a request was answered ReplayedCode for a code that an earlier request had been
\* accepted with 29 seconds before
C3_AwareReplayed ==
    \E c \in Slots : \E a \in accepted :
        /\ calls[c].result = "ReplayedCode"
        /\ a.username = calls[c].username
        /\ a.code = calls[c].otp_code
        /\ calls[c].id > a.ret
        /\ clock > a.time

\* C4: no two change_password requests for one username with the same code are both
\* past a successful rotator call with neither replay-state update written yet.
C4_SameCodeSerialized ==
    \A c, d \in Slots :
        ( /\ c # d
          /\ calls[c].pc = "update"
          /\ calls[d].pc = "update"
          /\ calls[c].username = calls[d].username )
        => calls[c].otp_code # calls[d].otp_code

\* register_user in slot c ends with an error in this step
RegisterFails(c) ==
    /\ calls[c].op = "register"
    /\ calls[c].pc \in {"check_username", "check_email", "insert_raised"}
    /\ calls'[c].pc = "done"
    /\ calls'[c].result # "cancelled"

\* C5: a register_user that ends with an error while its username is stored (and
\* its email is not) ends with DuplicateUsername.
C5_LoserGetsDuplicateUsername ==
    [][\A c \in Slots :
          ( /\ RegisterFails(c)
            /\ Account(calls[c].username) # <<>>
            /\ FindOne(users, "email", calls[c].email) = <<>> )
          => calls'[c].result = "DuplicateUsername"]_vars

\* C6 as stated: no two stored accounts share a username, and no two share an
\* email.
C6_UniqueUsernameAndEmail ==
    \A i, j \in DOMAIN users :
        i # j => /\ users[i].username # users[j].username
                 /\ users[i].email # users[j].email

\* what does hold: no two stored accounts share a field on which the collection has
\* its unique index
C6_UniqueWhereIndexed ==
    \A i, j \in DOMAIN users : \A f \in indexes :
        i # j => users[i][f] # users[j][f]

\* an insert was refused by the store after both lookups of its handler had found
\* nothing
C6_InsertRefused ==
    \E c \in Slots :
        /\ calls[c].op = "register"
        /\ calls[c].result = "InternalError"
        /\ \E i \in DOMAIN users : users[i].email = calls[c].email
                                     /\ users[i].username # calls[c].username

\* C7: when change_password returns success, the account's last accepted code is the
\* code of that request and its last accepted time lies between the request's
\* arrival and its return.
C7_SuccessLeavesOwnCode ==
    [][\A c \in Slots :
          (calls[c].pc = "updated" /\ calls'[c].result = "success")
          => LET doc == Account(calls[c].username)[1]
             IN /\ doc.last_otp_used = calls[c].otp_code
                /\ doc.last_otp_time >= calls[c].t_start
                /\ doc.last_otp_time <= clock]_vars

\* C8: every account has its last accepted code and time either both unset or both
\* set.
C8_ReplayFieldsTogether ==
    \A i \in DOMAIN users :
        (users[i].last_otp_used = None) <=> (users[i].last_otp_time = None)

\* C8 witness: an account has both fields set, by the update of a request for it that
\* was abandoned while the update was under way, and another request for it is still
\* being handled.
C8_Witness ==
    \E c, d \in Slots : \E i \in DOMAIN users :
        /\ users[i].last_otp_used # None
        /\ users[i].last_otp_time # None
        /\ calls[c].username = users[i].username
        /\ calls[d].username = users[i].username
        /\ calls[c].result = "cancelled"
        /\ calls[c].id \in landed
        /\ users[i].last_otp_used = calls[c].otp_code
        /\ calls[d].pc = "update"

\* what the checks on the stored account say, in the order of the specification
FirstFailure(username, otp_code, new_password, now) ==
    LET found == Account(username)
        doc == found[1]
    IN IF found = <<>> THEN "NotFound"
       ELSE IF ~doc.is_active THEN "Disabled"
       ELSE IF otp_code \notin WindowCodes(doc.totp_secret, now) THEN "InvalidCode"
       ELSE IF /\ doc.last_otp_used = otp_code
               /\ doc.last_otp_time # None
               /\ now - doc.last_otp_time < REPLAY_WINDOW THEN "ReplayedCode"
       ELSE IF Len(new_password) < MIN_PASSWORD_LEN THEN "WeakCredential"
       ELSE "none"

\* C9 as stated: change_password answers RateLimited exactly when the limiter denies it, then
\* the first of NotFound, Disabled, InvalidCode, ReplayedCode, WeakCredential that
\* applies to the stored account, then RotationFailed, and success only after all
\* of them passed.
C9_FirstFailingCheck ==
    [][\A c \in Slots :
          /\ (Arrives(c) /\ calls'[c].op = "change_password") =>
                calls'[c].result =
                    IF Len(Recent(admitLog, RateKey(calls'[c]), clock))
                          >= MAX_ATTEMPTS_PER_HOUR
                    THEN "RateLimited" ELSE "none"
          /\ Checks(c) =>
                calls'[c].result = FirstFailure(calls[c].username, calls[c].otp_code,
                                                calls[c].new_password, clock)
          /\ (calls[c].pc = "rotator" /\ calls'[c].pc # "rotator") =>
                \/ calls'[c].result = "RotationFailed"
                \/ calls'[c].result = "none" /\ calls'[c].pc = "update"
          /\ (calls[c].op = "change_password" /\ calls[c].pc # "done"
                /\ calls'[c].result = "success") =>
                /\ calls[c].pc = "updated"
                /\ calls[c].admitted
                /\ Account(calls[c].username) # <<>>
                /\ Account(calls[c].username)[1].is_active
                /\ calls[c].otp_code \in
                      WindowCodes(Account(calls[c].username)[1].totp_secret,
                                  calls[c].current_time)
                /\ Len(calls[c].new_password) >= MIN_PASSWORD_LEN]_vars

\* C10: a request that has called the rotator was admitted by the limiter, loaded
\* an active account, submitted a code of the TOTP window, was no replay of the
\* loaded last accepted code, and carries a password of at least 8 characters.
C10_RotatorOnlyAfterAllChecks ==
    \A c \in Slots :
        calls[c].pc \in {"rotator", "update", "updated"} =>
            /\ calls[c].admitted
            /\ calls[c].user # <<>>
            /\ calls[c].user[1].username = calls[c].username
            /\ calls[c].user[1].is_active
            /\ calls[c].otp_code \in
                  WindowCodes(calls[c].user[1].totp_secret, calls[c].current_time)
            /\ ~ ( /\ calls[c].user[1].last_otp_used = calls[c].otp_code
                   /\ calls[c].user[1].last_otp_time # None
                   /\ calls[c].current_time - calls[c].user[1].last_otp_time
                        < REPLAY_WINDOW )
            /\ Len(calls[c].new_password) >= MIN_PASSWORD_LEN

\* C10 witness: the rotator is running for a request whose code had been accepted
\* before, 30 seconds earlier.
C10_Witness ==
    \E c \in Slots :
        /\ calls[c].pc = "rotator"
        /\ calls[c].user[1].last_otp_used = calls[c].otp_code
        /\ calls[c].current_time - calls[c].user[1].last_otp_time = REPLAY_WINDOW

\* C11 as stated: for an enrolled, active account, a change_password whose new
\* password is shorter than 8 characters is answered WeakCredential whatever its
\* code, and its checks write nothing to the account store.
C11_ShortPasswordIsWeakCredential ==
    [][\A c \in Slots :
          ( /\ Checks(c)
            /\ calls[c].user # <<>>
            /\ calls[c].user[1].is_active
            /\ Len(calls[c].new_password) < MIN_PASSWORD_LEN )
          => /\ calls'[c].result = "WeakCredential"
             /\ users' = users]_vars

\* C11 amended: such a request always fails, never reaches the rotator and writes
\* nothing; it is answered InvalidCode when its code is none of the three codes of
\* the window, and WeakCredential when its code is one of them and is not the
\* loaded last accepted code.
C11_ShortPasswordAlwaysFails ==
    [][\A c \in Slots :
          ( /\ Checks(c)
            /\ calls[c].user # <<>>
            /\ calls[c].user[1].is_active
            /\ Len(calls[c].new_password) < MIN_PASSWORD_LEN )
          => /\ calls'[c].pc = "done"
             /\ calls'[c].rotator_calls = 0
             /\ users' = users
             /\ calls'[c].result # "success"
             /\ calls[c].otp_code
                    \notin WindowCodes(calls[c].user[1].totp_secret, clock)
                => calls'[c].result = "InvalidCode"
             /\ ( /\ calls[c].otp_code
                        \in WindowCodes(calls[c].user[1].totp_secret, clock)
                  /\ calls[c].user[1].last_otp_used # calls[c].otp_code )
                => calls'[c].result = "WeakCredential"]_vars

\* C11 witness: a request with a short password and the code of the current step
\* was answered WeakCredential for an account whose last accepted code is another
\* one.
C11_Witness ==
    \E c \in Slots :
        /\ calls[c].result = "WeakCredential"
        /\ calls[c].otp_code = Otp(1, Timecode(clock))
        /\ Account(calls[c].username)[1].last_otp_used
                \notin {None, calls[c].otp_code}

\* C12: when change_linux_password reports failure, the request is answered
\* RotationFailed at once, having called the rotator exactly once; that step writes
\* nothing to the account store, and unless another request has written the
\* account's last accepted code and time since this one loaded it, the replay test
\* on them lets this request's code pass.
C12_RotatorFailureSurfaced ==
    [][\A c \in Slots :
          (calls[c].pc = "rotator" /\ calls'[c].rotator = "failed")
          => /\ calls'[c].pc = "done"
             /\ calls'[c].result = "RotationFailed"
             /\ calls'[c].rotator_calls = 1
             /\ users' = users
             /\ LET doc == FindOne(users', "username", calls[c].username)[1]
                    loaded == calls[c].user[1]
                IN ( /\ doc.last_otp_used = loaded.last_otp_used
                     /\ doc.last_otp_time = loaded.last_otp_time )
                   => ReplayCheck(doc, calls[c].otp_code, clock, tz_aware)
                        = "pass"]_vars

\* C12 witness: a request was answered RotationFailed while its code is still inside
\* the TOTP window and its account carries the replay state of an earlier success.
C12_Witness ==
    \E c \in Slots :
        /\ calls[c].result = "RotationFailed"
        /\ calls[c].rotator = "failed"
        /\ calls[c].otp_code \in WindowCodes(1, clock)
        /\ Account(calls[c].username)[1].last_otp_used # None

\* the answers of change_password that are errors
RotateErrors ==
    {"RateLimited", "NotFound", "Disabled", "InvalidCode", "ReplayedCode",
     "InternalError", "WeakCredential", "RotationFailed"}

\* the documents of coll with the two replay fields blanked
WithoutReplayFields(coll) ==
    [i \in DOMAIN coll |->
        [coll[i] EXCEPT !.last_otp_used = None, !.last_otp_time = None]]

\* C13: the account store changes only when update_one of a change_password whose
\* rotator succeeded takes effect (at once, or after its handler was cancelled), and
\* then only in the replay fields of that request's account; a change_password that
\* answers an error makes no such step and writes nothing.
C13_ErrorsWriteNothing ==
    [][/\ users' # users =>
            \E r \in {calls[c] : c \in Slots} \cup pending :
                /\ r.op = "change_password"
                /\ r.pc = "update"
                /\ \/ r \in pending /\ r \notin pending'
                   \/ \E c \in Slots : calls[c] = r /\ calls'[c].pc = "updated"
                /\ r.rotator = "succeeded"
                /\ WithoutReplayFields(users') = WithoutReplayFields(users)
                /\ \A i \in DOMAIN users :
                        users'[i] # users[i] => users[i].username = r.username
       /\ \A c \in Slots :
            ( /\ calls[c].op = "change_password" \/ Arrives(c)
              /\ calls'[c].op = "change_password"
              /\ calls[c].pc # "done" \/ Arrives(c)
              /\ calls'[c].pc = "done"
              /\ calls'[c].result \in RotateErrors )
            => /\ users' = users
               /\ Arrives(c) \/ calls[c].pc \in {"find_user", "checks", "rotator"}]_vars

\* C13 witness: a request was answered WeakCredential for an account that carries
\* the replay state of an earlier success, while another request for it has had its
\* update written.
C13_Witness ==
    \E c, d \in Slots :
        /\ calls[c].result = "WeakCredential"
        /\ calls[d].pc = "updated"
        /\ calls[d].username = calls[c].username
        /\ Account(calls[c].username)[1].last_otp_used = calls[d].otp_code

\* the identifier under which a read-only request counts
GateKey(call) == IF call.op = "get_users" THEN "get_users" ELSE RateKey(call)

\* C14: an arriving get_qr_code or get_users request is refused with RateLimited
\* exactly when 5 requests of its identifier were admitted in the trailing 3600
\* seconds.
C14_AccessorsRateLimited ==
    [][\A c \in Slots :
          (Arrives(c) /\ calls'[c].op \in {"get_qr_code", "get_users"})
          => ( calls'[c].result = "RateLimited"
               <=> Len(Recent(admitLog, GateKey(calls'[c]), clock))
                      >= MAX_ATTEMPTS_PER_HOUR )]_vars

\* the same for get_qr_code alone
C14_DescribeRateLimited ==
    [][\A c \in Slots :
          (Arrives(c) /\ calls'[c].op = "get_qr_code")
          => ( calls'[c].result = "RateLimited"
               <=> Len(Recent(admitLog, GateKey(calls'[c]), clock))
                      >= MAX_ATTEMPTS_PER_HOUR )]_vars

\* C15: every record of the list a get_users request returns lacks the secret, the
\* last accepted code and the last accepted time, and the request leaves the account
\* store unchanged.
C15_ListHidesSecretAndReplayFields ==
    [][\A c \in Slots :
          ( /\ calls[c].op = "get_users"
            /\ calls[c].pc = "list_found"
            /\ calls'[c].result = "success" )
          => /\ users' = users
             /\ \A i \in DOMAIN calls'[c].response :
                    DOMAIN calls'[c].response[i]
                        \cap {"totp_secret", "last_otp_used", "last_otp_time"} = {}]_vars

\* what does hold: the secret and the last accepted code are absent
C15_ListHidesSecretAndCode ==
    [][\A c \in Slots :
          ( /\ calls[c].op = "get_users"
            /\ calls[c].pc = "list_found"
            /\ calls'[c].result = "success" )
          => /\ users' = users
             /\ Len(calls'[c].response) = Len(calls[c].user)
             /\ \A i \in DOMAIN calls'[c].response :
                    DOMAIN calls'[c].response[i]
                        \cap {"totp_secret", "last_otp_used"} = {}]_vars

\* the fields of an account that are fixed at enrollment
Identity(doc) ==
    <<doc.id, doc.username, doc.email, doc.created_at, doc.totp_secret>>

\* C16: no step removes an account or changes its id, username, email, creation time
\* or secret, and the secret and QR code that any get_qr_code request has returned
\* are those of the secret the account has now.
C16_IdentityAndSecretFixed ==
    [][/\ \A i \in DOMAIN users :
            i \in DOMAIN users' /\ Identity(users'[i]) = Identity(users[i])
       /\ \A c \in Slots :
            (calls'[c].op = "get_qr_code" /\ calls'[c].result = "success")
            => LET doc == FindOne(users', "username", calls'[c].username)[1]
               IN /\ calls'[c].response.secret = doc.totp_secret
                  /\ calls'[c].response.qr_code_base64 =
                        generate_qr_code(doc.username, doc.totp_secret)]_vars

\* C16 witness: get_qr_code has returned the secret of an account that was enrolled
\* by an earlier request, and a change_password has written to another account
\* since.
C16_Witness ==
    \E c \in Slots : \E i, j \in DOMAIN users :
        /\ calls[c].op = "get_qr_code"
        /\ calls[c].result = "success"
        /\ users[i].username = calls[c].username
        /\ users[i].id > 0
        /\ calls[c].response.secret = users[i].totp_secret
        /\ users[j].last_otp_used # None

\* the steps whose codes are submitted, relative to the current one
StepRange == (0 - MaxStepDistance)..MaxStepDistance

\* C17 as stated: verify_totp accepts the token when it is the code of the current
\* step or of one of the two steps next to it, and rejects it when it is the code of
\* any other step.
C17_OnlyWindowStepsAccepted ==
    [][\A c \in Slots : calls[c].pc = "verify" =>
          \A k \in StepRange :
              calls[c].otp_code = Otp(calls[c].secret, Timecode(clock) + k)
              => ( calls'[c].result = "accepted" <=> k \in {-1, 0, 1} )]_vars

\* C17 amended: it accepts the codes of those three steps, and rejects the code of
\* any other step unless that code equals one of the three.
C17_WindowCodesAccepted ==
    [][\A c \in Slots : calls[c].pc = "verify" =>
          \A k \in StepRange :
              calls[c].otp_code = Otp(calls[c].secret, Timecode(clock) + k)
              => /\ k \in {-1, 0, 1} => calls'[c].result = "accepted"
                 /\ ( /\ k \notin {-1, 0, 1}
                      /\ calls[c].otp_code
                            \notin WindowCodes(calls[c].secret, clock) )
                    => calls'[c].result = "rejected"]_vars

\* C17 witness: in the last second of a step the code of the step before was
\* accepted.
C17_Witness ==
    \E c \in Slots :
        /\ calls[c].op = "verify_totp"
        /\ calls[c].result = "accepted"
        /\ clock % TOTP_INTERVAL = TOTP_INTERVAL - 1
        /\ calls[c].otp_code = Otp(1, Timecode(clock) - 1)

\* C18: register_user answers RateLimited exactly when the limiter denies it; else,
\* when it resumes after its username lookup, DuplicateUsername exactly when the
\* username is stored, whatever the email; else, when it resumes after its email
\* lookup, DuplicateEmail exactly when the email is stored; else UnknownIdentity
\* exactly when the identity check fails; only then does it go on to insert.
C18_EnrollFirstFailingCheck ==
    [][\A c \in Slots :
          /\ (Arrives(c) /\ calls'[c].op = "register") =>
                calls'[c].result =
                    IF Len(Recent(admitLog, RateKey(calls'[c]), clock))
                          >= MAX_ATTEMPTS_PER_HOUR
                    THEN "RateLimited" ELSE "none"
          /\ ( /\ calls[c].op = "register" /\ calls[c].pc = "check_username"
               /\ calls'[c].pc # "check_username" /\ calls'[c].result # "cancelled" )
             => IF \E i \in DOMAIN users : users[i].username = calls[c].username
                THEN calls'[c].result = "DuplicateUsername"
                ELSE calls'[c].result = "none" /\ calls'[c].pc = "find_email"
          /\ ( /\ calls[c].op = "register" /\ calls[c].pc = "check_email"
               /\ calls'[c].pc # "check_email" /\ calls'[c].result # "cancelled" )
             => IF \E i \in DOMAIN users : users[i].email = calls[c].email
                THEN calls'[c].result = "DuplicateEmail"
                ELSE IF ~check_linux_user_exists(calls[c].username)
                THEN calls'[c].result = "UnknownIdentity"
                ELSE calls'[c].result = "none" /\ calls'[c].pc = "insert"]_vars

\* C18 witness: a request whose username and email are both stored was answered
\* RateLimited, after one with that email and a username that is not stored was
\* admitted and hence answered DuplicateEmail; the other email is not stored.
C18_Witness ==
    \E c \in Slots :
        /\ calls[c].op = "register"
        /\ calls[c].result = "RateLimited"
        /\ Account(calls[c].username) # <<>>
        /\ FindOne(users, "email", calls[c].email) # <<>>
        /\ Len(users) = Len(SeedUsers) + 1

\* the answers of register_user that are errors
RegisterErrors ==
    {"RateLimited", "DuplicateUsername", "DuplicateEmail", "UnknownIdentity",
     "InternalError"}

\* the accounts that a request has inserted
InsertedBy(coll, call) == {i \in DOMAIN coll : coll[i].id = call.id}

\* C19: the account store changes under register_user only by one new account being
\* appended, active and with both replay fields unset, all others staying as they
\* were; a register_user that answers success has added exactly one account, with
\* its username and email; one that answers an error has added none and its last
\* step leaves the store unchanged.
C19_EnrollAddsOneOrNothing ==
    [][/\ users' # users =>
            \E r \in {calls[c] : c \in Slots} \cup pending :
                /\ r.op = "register"
                /\ r.pc = "insert"
                /\ \/ r \in pending /\ r \notin pending'
                   \/ \E c \in Slots : calls[c] = r /\ calls'[c].pc = "inserted"
                /\ Len(users') = Len(users) + 1
                /\ SubSeq(users', 1, Len(users)) = users
                /\ users'[Len(users')] =
                      [id |-> r.id, username |-> r.username,
                       email |-> r.email, totp_secret |-> r.secret,
                       is_active |-> TRUE, created_at |-> r.current_time,
                       last_otp_used |-> None, last_otp_time |-> None]
       /\ \A c \in Slots :
            ( /\ calls[c].op = "register" /\ calls[c].pc = "inserted"
              /\ calls'[c].result = "success" )
            => /\ users' = users
               /\ Cardinality(InsertedBy(users, calls[c])) = 1
       /\ \A c \in Slots :
            ( /\ calls'[c].op = "register"
              /\ calls[c].pc # "done" \/ Arrives(c)
              /\ calls'[c].result \in RegisterErrors )
            => /\ users' = users
               /\ InsertedBy(users', calls'[c]) = {}]_vars

\* C19 witness: one request has enrolled an account and answered success, another
\* for the same username was refused by the store and answered an error.
C19_Witness ==
    \E c, d \in Slots :
        /\ calls[c].op = "register" /\ calls[c].result = "success"
        /\ calls[d].op = "register" /\ calls[d].result = "InternalError"
        /\ calls[d].username = calls[c].username
        /\ Account(calls[c].username)[1].id = calls[c].id

\* C20: send_email_async starts only for a request that has answered success and
\* whose account is stored; when it ends, having sent the mail or failed, the store
\* is unchanged, the account is still stored and the answer is still success.
C20_NotifierNeverUndoesEnroll ==
    [][\A c \in Slots :
          /\ (calls'[c].pc = "notify" /\ calls[c].pc # "notify")
             => /\ calls[c].pc = "inserted"
                /\ calls'[c].result = "success"
                /\ Cardinality(InsertedBy(users', calls'[c])) = 1
          /\ (calls[c].pc = "notify" /\ calls'[c].pc # "notify")
             => /\ users' = users
                /\ calls'[c].result = "success"
                /\ Cardinality(InsertedBy(users', calls'[c])) = 1]_vars

\* C20 witness: the notifier has failed for a request whose account is stored and
\* whose answer is success.
C20_Witness ==
    \E c \in Slots :
        /\ calls[c].op = "register"
        /\ calls[c].pc = "done"
        /\ calls[c].notifier = "failed"
        /\ calls[c].result = "success"
        /\ Account(calls[c].username)[1].id = calls[c].id

\* the admitted attempts of an identifier that are at most the window old at now
RecentInclusive(log, identifier, now) ==
    SelectSeq(Attempts(log, identifier), LAMBDA t : now - t <= RATE_WINDOW)

\* C21: an admitted attempt exactly 3600 seconds old still counts: an arriving
\* request is answered RateLimited exactly when 5 admitted attempts of its identifier
\* are at most 3600 seconds old.
C21_ExactlyOneHourStillCounts ==
    [][\A c \in Slots : Arrives(c) =>
          ( calls'[c].result = "RateLimited"
            <=> Len(RecentInclusive(admitLog, RateKey(calls'[c]), clock))
                    >= MAX_ATTEMPTS_PER_HOUR )]_vars

\* C22: a change_password for an active account whose code is one of the three
\* codes of the window and differs from the loaded last accepted code is never
\* answered ReplayedCode, however recent that last acceptance: it goes on to the
\* rotator when its password is long enough; and ReplayedCode is only ever answered
\* to the loaded last accepted code itself.
C22_ReplayIsExactMatchOnly ==
    [][\A c \in Slots : Checks(c) =>
          /\ ( /\ calls[c].user # <<>>
               /\ calls[c].user[1].is_active
               /\ calls[c].otp_code
                     \in WindowCodes(calls[c].user[1].totp_secret, clock)
               /\ calls[c].otp_code # calls[c].user[1].last_otp_used )
             => /\ calls'[c].result \notin {"ReplayedCode", "InternalError"}
                /\ Len(calls[c].new_password) >= MIN_PASSWORD_LEN
                      => calls'[c].pc = "rotator"
          /\ calls'[c].result = "ReplayedCode"
                => calls[c].otp_code = calls[c].user[1].last_otp_used]_vars

\* C22 witness: two requests for one account have succeeded with different codes,
\* the second accepted at the same second as the first and after the first had
\* returned.
C22_Witness ==
    \E a, b \in accepted :
        /\ a.username = b.username
        /\ a.code # b.code
        /\ b.ret > a.ret
        /\ b.time = a.time
        /\ Account(a.username)[1].last_otp_used = b.code

\* C23: a change_password gets past the limiter only when fewer than 5 requests for
\* its username were admitted in the trailing 3600 seconds, all admitted requests
\* counted whatever they were answered; and no step in which a request is answered
\* or goes on gives an attempt back.
C23_EveryAdmittedAttemptCounts ==
    [][/\ \A c \in Slots :
            (Arrives(c) /\ calls'[c].op = "change_password")
            => ( calls'[c].pc = "find_user"
                 <=> Len(Recent(admitLog, RateKey(calls'[c]), clock))
                        < MAX_ATTEMPTS_PER_HOUR )
       /\ (\A c \in Slots : ~Arrives(c))
            => rate_limit_storage' = rate_limit_storage]_vars

\* C23 witness: a request for an enrolled account was refused after five were
\* admitted of which only one succeeded.
C23_Witness ==
    \E c \in Slots :
        /\ calls[c].result = "RateLimited"
        /\ calls[c].username = "dave"
        /\ Len(admitLog[RateKey(calls[c])]) = MAX_ATTEMPTS_PER_HOUR
        /\ Cardinality(accepted) = 1

\* C24: no step lowers the last accepted time of an account.
C24_LastAcceptedTimeNeverDecreases ==
    [][\A i \in DOMAIN users :
          users[i].last_otp_time # None
          => users'[i].last_otp_time >= users[i].last_otp_time]_vars

\* C25: no change_password has ended, answered or abandoned, with its rotator call
\* having succeeded and its code and time neither written to the account nor still
\* on their way to the store.
C25_RotatedImpliesRecorded ==
    \A c \in Slots :
        (calls[c].pc = "done" /\ calls[c].rotator = "succeeded")
        => \/ calls[c].wrote
           \/ calls[c].id \in landed
           \/ \E op \in pending : op.id = calls[c].id
====
